---- MODULE Spec2Model ----
(***************************************************************************)
(* ISO 286 tolerance calculator (src/app.py).                              *)
(*                                                                         *)
(* The page is a script that is run from top to bottom for the text the    *)
(* user entered: it matches the designation against a regular expression,  *)
(* looks up the standard tolerance width IT, resolves the fundamental      *)
(* deviation of the letter, composes the two deviations and the limits,    *)
(* and shows either a result, a range error or a format warning.           *)
(*                                                                         *)
(* Lengths are exact decimal numbers counted in units of half a micron     *)
(* (MM units make one millimetre), so that IT/2 is a whole number.  The    *)
(* script computes the same quantities in binary floating point; the       *)
(* model therefore states its results up to the last-place rounding of the *)
(* floats.  Strings are sequences of one-character strings.                *)
(***************************************************************************)
EXTENDS Integers, Sequences, FiniteSets, TLC

\* ------------------------------------------------------------------ bounds
\* how many whole millimetres above 0 and above every bracket boundary are typed
Around == 1
\* smallest and largest grade typed in a designation
MinGrade == 4
MaxGrade == 14
\* longest free text typed into the box
MaxLen == 5

\* ------------------------------------------------------------------ units
\* it_val_mm = it_val_microns / 1000.0
MicronsPerMM == 1000
\* half_it = it_val_mm / 2.0 : the finest step the script produces is half a micron
HalvesPerMicron == 2
MM == MicronsPerMM * HalvesPerMicron

\* ------------------------------------------------------------------ values
\* Python's None, and a value that is present
None == <<>>
Some(v) == <<v>>
\* the two kinds of value get_fundamental_deviation returns
SYMMETRIC == [symmetric |-> TRUE, dev |-> 0]
Number(d) == [symmetric |-> FALSE, dev |-> d]

\* ------------------------------------------------------------------ characters
DigitChars == <<"0", "1", "2", "3", "4", "5", "6", "7", "8", "9">>
LowerChars == <<"a", "e", "f", "g", "h", "j", "k", "m", "n", "p", "s">>
UpperChars == <<"A", "E", "F", "G", "H", "J", "K", "M", "N", "P", "S">>

Range(f) == {f[i] : i \in DOMAIN f}

DigitSet == Range(DigitChars)
LowerSet == Range(LowerChars)
UpperSet == Range(UpperChars)

\* \d
IsDigit(c) == c \in DigitSet
\* [A-Za-z]
IsAlpha(c) == c \in LowerSet \/ c \in UpperSet
\* \s
IsSpace(c) == c = " "

DigitVal(c) == (CHOOSE i \in DOMAIN DigitChars : DigitChars[i] = c) - 1

\* str.lower() of one character
LowerChar(c) ==
    IF c \in UpperSet
    THEN LowerChars[CHOOSE i \in DOMAIN UpperChars : UpperChars[i] = c]
    ELSE c

\* str.lower()
Lower(s) == [i \in DOMAIN s |-> LowerChar(s[i])]

\* str.isupper(): at least one cased character and no lower-case one
IsUpper(s) ==
    /\ \E i \in DOMAIN s : s[i] \in UpperSet
    /\ \A i \in DOMAIN s : s[i] \notin LowerSet

\* str.strip()
RECURSIVE LStrip(_)
LStrip(s) == IF s # <<>> /\ IsSpace(Head(s)) THEN LStrip(Tail(s)) ELSE s

RECURSIVE RStrip(_)
RStrip(s) ==
    IF s # <<>> /\ IsSpace(s[Len(s)]) THEN RStrip(SubSeq(s, 1, Len(s) - 1)) ELSE s

Strip(s) == RStrip(LStrip(s))

\* int() of a run of digits
RECURSIVE IntVal(_)
IntVal(s) ==
    IF s = <<>> THEN 0
    ELSE IntVal(SubSeq(s, 1, Len(s) - 1)) * 10 + DigitVal(s[Len(s)])

RECURSIVE Pow10(_)
Pow10(n) == IF n = 0 THEN 1 ELSE 10 * Pow10(n - 1)

\* the value, in units, of the digits after the decimal point
RECURSIVE FracVal(_)
FracVal(s) ==
    IF s = <<>> THEN 0
    ELSE FracVal(SubSeq(s, 1, Len(s) - 1)) + (DigitVal(s[Len(s)]) * MM) \div Pow10(Len(s))

\* float() of digits with an optional fraction, in units
FloatVal(s) ==
    IF \E i \in DOMAIN s : s[i] = "."
    THEN LET dot == CHOOSE i \in DOMAIN s : s[i] = "."
         IN  IntVal(SubSeq(s, 1, dot - 1)) * MM + FracVal(SubSeq(s, dot + 1, Len(s)))
    ELSE IntVal(s) * MM

\* ------------------------------------------------------------------ regular expression
\* the position after the longest run of characters of one class that starts at i
RECURSIVE SpanDigit(_, _)
SpanDigit(s, i) == IF i <= Len(s) /\ IsDigit(s[i]) THEN SpanDigit(s, i + 1) ELSE i

RECURSIVE SpanAlpha(_, _)
SpanAlpha(s, i) == IF i <= Len(s) /\ IsAlpha(s[i]) THEN SpanAlpha(s, i + 1) ELSE i

RECURSIVE SpanSpace(_, _)
SpanSpace(s, i) == IF i <= Len(s) /\ IsSpace(s[i]) THEN SpanSpace(s, i + 1) ELSE i

\* the position after (?:\.\d+)? tried at i
SpanFraction(s, i) ==
    IF i <= Len(s) /\ s[i] = "." /\ SpanDigit(s, i + 1) > i + 1
    THEN SpanDigit(s, i + 1)
    ELSE i

\* re.match(r"(\d+(?:\.\d+)?)\s*([A-Za-z]+)\s*(\d+)", s): the three groups, or None.
\* The match is anchored at the start only.  The classes of adjacent pieces are
\* disjoint, so the greedy match is the only candidate.
Match(s) ==
    LET p1 == SpanDigit(s, 1)
        p2 == SpanFraction(s, p1)
        p3 == SpanSpace(s, p2)
        p4 == SpanAlpha(s, p3)
        p5 == SpanSpace(s, p4)
        p6 == SpanDigit(s, p5)
    IN  IF p1 = 1 \/ p4 = p3 \/ p6 = p5
        THEN None
        ELSE Some([size_str  |-> SubSeq(s, 1, p2 - 1),
                   dev_char  |-> SubSeq(s, p3, p4 - 1),
                   grade_str |-> SubSeq(s, p5, p6 - 1)])

\* ------------------------------------------------------------------ tables
ranges == <<3, 6, 10, 18, 30, 50, 80, 120, 180, 250, 315, 400, 500>>

RangeSet == Range(ranges)

IT_TABLE ==
    [r \in RangeSet |->
        CASE r = 3   -> <<4, 6, 10, 14, 25, 40, 60, 100, 140>>
          [] r = 6   -> <<5, 8, 12, 18, 30, 48, 75, 120, 180>>
          [] r = 10  -> <<6, 9, 15, 22, 36, 58, 90, 150, 220>>
          [] r = 18  -> <<8, 11, 18, 27, 43, 70, 110, 180, 270>>
          [] r = 30  -> <<9, 13, 21, 33, 52, 84, 130, 210, 330>>
          [] r = 50  -> <<11, 16, 25, 39, 62, 100, 160, 250, 390>>
          [] r = 80  -> <<13, 19, 30, 46, 74, 120, 190, 300, 460>>
          [] r = 120 -> <<15, 22, 35, 54, 87, 140, 220, 350, 540>>
          [] r = 180 -> <<18, 25, 40, 63, 100, 160, 250, 400, 630>>
          [] r = 250 -> <<20, 29, 46, 72, 115, 185, 290, 460, 720>>
          [] r = 315 -> <<23, 32, 52, 81, 130, 210, 320, 520, 810>>
          [] r = 400 -> <<25, 36, 57, 89, 140, 230, 360, 570, 890>>
          [] r = 500 -> <<27, 40, 63, 97, 155, 250, 400, 630, 970>>]

\* ------------------------------------------------------------------ get_it_value
RECURSIVE FindRange_exclusive(_, _)
FindRange_exclusive(size, i) ==
    IF i > Len(ranges) THEN None
    ELSE IF size < ranges[i] * MM THEN Some(ranges[i])
    ELSE FindRange_exclusive(size, i + 1)

\* for r in ranges: if size <= r: found_range = r; break
RECURSIVE FindRange(_, _)
FindRange(size, i) ==
    IF i > Len(ranges) THEN None
    ELSE IF size <= ranges[i] * MM THEN Some(ranges[i])
    ELSE FindRange(size, i + 1)

get_it_value(size, grade) ==
    LET found_range == FindRange(size, 1)
    IN  IF found_range = None \/ ~(5 <= grade /\ grade <= 13)
        THEN None
        ELSE Some(IT_TABLE[found_range[1]][grade - 5 + 1])

\* ------------------------------------------------------------------ get_fundamental_deviation
\* the stepped constant of a shaft letter, in microns (0 for a letter without a branch)
ShaftDev(size, code) ==
    IF code = <<"h">> THEN 0
    ELSE IF code = <<"g">> THEN
        IF size <= 3 * MM THEN -2
        ELSE IF size <= 6 * MM THEN -4
        ELSE IF size <= 10 * MM THEN -5
        ELSE IF size <= 18 * MM THEN -6
        ELSE IF size <= 30 * MM THEN -7
        ELSE IF size <= 50 * MM THEN -9
        ELSE -10
    ELSE IF code = <<"f">> THEN
        IF size <= 3 * MM THEN -6
        ELSE IF size <= 6 * MM THEN -10
        ELSE IF size <= 10 * MM THEN -13
        ELSE IF size <= 18 * MM THEN -16
        ELSE IF size <= 30 * MM THEN -20
        ELSE -25
    ELSE IF code = <<"e">> THEN
        IF size <= 3 * MM THEN -14
        ELSE IF size <= 6 * MM THEN -20
        ELSE IF size <= 10 * MM THEN -25
        ELSE IF size <= 18 * MM THEN -32
        ELSE IF size <= 30 * MM THEN -40
        ELSE -50
    ELSE IF code = <<"m">> THEN
        IF size <= 3 * MM THEN 2
        ELSE IF size <= 6 * MM THEN 4
        ELSE IF size <= 10 * MM THEN 6
        ELSE IF size <= 18 * MM THEN 7
        ELSE IF size <= 30 * MM THEN 8
        ELSE 9
    ELSE IF code = <<"n">> THEN
        IF size <= 3 * MM THEN 4
        ELSE IF size <= 6 * MM THEN 8
        ELSE IF size <= 10 * MM THEN 10
        ELSE IF size <= 18 * MM THEN 12
        ELSE IF size <= 30 * MM THEN 15
        ELSE 17
    ELSE IF code = <<"p">> THEN
        IF size <= 3 * MM THEN 6
        ELSE IF size <= 6 * MM THEN 12
        ELSE IF size <= 10 * MM THEN 15
        ELSE IF size <= 18 * MM THEN 18
        ELSE IF size <= 30 * MM THEN 22
        ELSE 26
    ELSE 0

get_fundamental_deviation_nomirror(size, letter) ==
    LET code == Lower(letter)
    IN  IF code = <<"j", "s">> THEN SYMMETRIC ELSE Number(ShaftDev(size, code))

get_fundamental_deviation(size, letter) ==
    LET is_hole == IsUpper(letter)
        code    == Lower(letter)
        dev     == ShaftDev(size, code)
    IN  IF code = <<"j", "s">> THEN SYMMETRIC
        ELSE IF is_hole THEN (IF code = <<"h">> THEN Number(0) ELSE Number(-dev))
        ELSE Number(dev)

\* ------------------------------------------------------------------ deviation composition
\* microns to millimetres (x / 1000.0), in units
ToMM(microns) == (microns * MM) \div MicronsPerMM

\* branch A: the symmetric code
SymmetricBranch_full(it_val_mm) ==
    [upper_dev |-> it_val_mm, lower_dev |-> -it_val_mm, desc |-> "Symmetric"]

SymmetricBranch(it_val_mm) ==
    LET half_it == it_val_mm \div HalvesPerMicron
    IN  [upper_dev |-> half_it, lower_dev |-> -half_it, desc |-> "Symmetric"]

\* branch B, is_hole
HoleBranch_Hswapped(dev_char, fund_dev_mm, it_val_mm) ==
    IF dev_char = <<"H">>
    THEN [upper_dev |-> 0, lower_dev |-> 0 - it_val_mm, desc |-> "Hole/Slot"]
    ELSE IF dev_char = <<"P">>
    THEN [upper_dev |-> fund_dev_mm, lower_dev |-> fund_dev_mm - it_val_mm,
          desc |-> "Hole/Slot"]
    ELSE [upper_dev |-> fund_dev_mm + it_val_mm, lower_dev |-> fund_dev_mm,
          desc |-> "Hole/Slot"]

HoleBranch(dev_char, fund_dev_mm, it_val_mm) ==
    IF dev_char = <<"H">>
    THEN [upper_dev |-> it_val_mm, lower_dev |-> 0, desc |-> "Hole/Slot"]
    ELSE IF dev_char = <<"P">>
    THEN [upper_dev |-> fund_dev_mm, lower_dev |-> fund_dev_mm - it_val_mm,
          desc |-> "Hole/Slot"]
    ELSE [upper_dev |-> fund_dev_mm + it_val_mm, lower_dev |-> fund_dev_mm,
          desc |-> "Hole/Slot"]

\* branch B, not is_hole
ShaftBranch_signflip(dev_char, fund_dev_mm, it_val_mm) ==
    IF Lower(dev_char) \in {<<"k">>, <<"m">>, <<"n">>, <<"p">>}
    THEN [upper_dev |-> fund_dev_mm - it_val_mm, lower_dev |-> fund_dev_mm,
          desc |-> "Shaft/Key"]
    ELSE [upper_dev |-> fund_dev_mm, lower_dev |-> fund_dev_mm + it_val_mm,
          desc |-> "Shaft/Key"]

ShaftBranch(dev_char, fund_dev_mm, it_val_mm) ==
    IF Lower(dev_char) \in {<<"k">>, <<"m">>, <<"n">>, <<"p">>}
    THEN [upper_dev |-> fund_dev_mm + it_val_mm, lower_dev |-> fund_dev_mm,
          desc |-> "Shaft/Key"]
    ELSE [upper_dev |-> fund_dev_mm, lower_dev |-> fund_dev_mm - it_val_mm,
          desc |-> "Shaft/Key"]

\* the body of the script from "it_val_mm = ..." to the two limits
Compose(nominal_size, dev_char, it_val_microns) ==
    LET it_val_mm == ToMM(it_val_microns)
        raw_dev   == get_fundamental_deviation(nominal_size, dev_char)
        devs ==
            IF raw_dev = SYMMETRIC THEN SymmetricBranch(it_val_mm)
            ELSE IF IsUpper(dev_char) THEN HoleBranch(dev_char, ToMM(raw_dev.dev), it_val_mm)
            ELSE ShaftBranch(dev_char, ToMM(raw_dev.dev), it_val_mm)
    IN  [raw_dev      |-> raw_dev,
         is_symmetric |-> raw_dev = SYMMETRIC,
         upper_dev    |-> devs.upper_dev,
         lower_dev    |-> devs.lower_dev,
         desc         |-> devs.desc,
         max_size     |-> nominal_size + devs.upper_dev,
         min_size     |-> nominal_size + devs.lower_dev]

\* ------------------------------------------------------------------ inputs
\* the decimal digits of a natural number
RECURSIVE Digits(_)
Digits(n) == IF n < 10 THEN <<DigitChars[n + 1]>> ELSE Digits(n \div 10) \o <<DigitChars[(n % 10) + 1]>>

\* the fractions typed after the whole millimetres
Fractions == {<<>>, <<".", "5">>}

\* the letter codes typed in a designation: the letters with a branch in both cases,
\* the symmetric code in three spellings, and a letter without a branch in both cases
LetterCodes ==
    {<<c>> : c \in {"h", "g", "f", "e", "k", "m", "n", "p", "a"}}
    \cup {<<c>> : c \in {"H", "G", "F", "E", "K", "M", "N", "P", "A"}}
    \cup {<<"j", "s">>, <<"J", "S">>, <<"J", "s">>}

\* well-shaped designations such as 25JS9, 15H7, 8.5P9
\* the whole millimetres typed: 0 and every bracket boundary, and the sizes after them
WholeSizes == {r + d : r \in RangeSet \cup {0}, d \in 0..Around}

DesignationInputs ==
    {Digits(n) \o f \o l \o Digits(g) :
        n \in WholeSizes, f \in Fractions, l \in LetterCodes, g \in MinGrade..MaxGrade}

\* free text over a few characters of every class
TextChars == {"7", ".", " ", "H", "!"}

TextInputs == UNION {[1..k -> TextChars] : k \in 0..MaxLen}

\* ------------------------------------------------------------------ state
VARIABLES
    user_input,       \* the text in the box
    check_btn,        \* whether the button was pressed for this run
    pc,               \* "input" before the run, then what the page shows
    nominal_size,     \* float(size_str), in units
    dev_char,         \* the letters as typed
    tolerance_grade,  \* int(grade_str)
    it_val_microns,   \* get_it_value(...)
    raw_dev,          \* get_fundamental_deviation(...)
    is_symmetric,
    upper_dev,        \* in units
    lower_dev,        \* in units
    desc,             \* the label shown under the caption "type"
    max_size,         \* in units
    min_size          \* in units

parsed == <<nominal_size, dev_char, tolerance_grade, it_val_microns>>
result == <<raw_dev, is_symmetric, upper_dev, lower_dev, desc, max_size, min_size>>
vars == <<user_input, check_btn, pc, parsed, result>>

\* the text has been entered and the script is about to run; a designation is
\* entered with the Enter key, free text with the Enter key or with the button
Init ==
    /\ \/ user_input \in DesignationInputs /\ check_btn = FALSE
       \/ user_input \in TextInputs /\ check_btn \in BOOLEAN
    /\ pc = "input"
    /\ nominal_size = None /\ dev_char = None /\ tolerance_grade = None
    /\ it_val_microns = None
    /\ raw_dev = None /\ is_symmetric = None /\ upper_dev = None /\ lower_dev = None
    /\ desc = None /\ max_size = None /\ min_size = None

\* if check_btn or user_input: is false, the page shows the form only
ShowNothing ==
    /\ pc = "input"
    /\ ~(check_btn \/ user_input # <<>>)
    /\ pc' = "idle"
    /\ UNCHANGED <<user_input, check_btn, parsed, result>>

\* no match: st.warning
ShowWarning ==
    /\ pc = "input"
    /\ check_btn \/ user_input # <<>>
    /\ Match(Strip(user_input)) = None
    /\ pc' = "warning"
    /\ UNCHANGED <<user_input, check_btn, parsed, result>>

\* match, get_it_value returns None: st.error
ShowError ==
    /\ pc = "input"
    /\ check_btn \/ user_input # <<>>
    /\ LET match == Match(Strip(user_input))
           size  == FloatVal(match[1].size_str)
           grade == IntVal(match[1].grade_str)
       IN  /\ match # None
           /\ get_it_value(size, grade) = None
           /\ nominal_size' = Some(size)
           /\ dev_char' = Some(match[1].dev_char)
           /\ tolerance_grade' = Some(grade)
           /\ it_val_microns' = None
    /\ pc' = "error"
    /\ UNCHANGED <<user_input, check_btn, result>>

\* match, get_it_value returns a width: the deviations and the limits are shown
ShowResult ==
    /\ pc = "input"
    /\ check_btn \/ user_input # <<>>
    /\ LET match == Match(Strip(user_input))
           size  == FloatVal(match[1].size_str)
           grade == IntVal(match[1].grade_str)
           it    == get_it_value(size, grade)
       IN  /\ match # None
           /\ it # None
           /\ nominal_size' = Some(size)
           /\ dev_char' = Some(match[1].dev_char)
           /\ tolerance_grade' = Some(grade)
           /\ it_val_microns' = it
           /\ LET c == Compose(size, match[1].dev_char, it[1])
              IN  /\ raw_dev' = Some(c.raw_dev)
                  /\ is_symmetric' = Some(c.is_symmetric)
                  /\ upper_dev' = Some(c.upper_dev)
                  /\ lower_dev' = Some(c.lower_dev)
                  /\ desc' = Some(c.desc)
                  /\ max_size' = Some(c.max_size)
                  /\ min_size' = Some(c.min_size)
    /\ pc' = "result"
    /\ UNCHANGED <<user_input, check_btn>>

Next == ShowNothing \/ ShowWarning \/ ShowError \/ ShowResult

Spec == Init /\ [][Next]_vars

\* ------------------------------------------------------------------ properties
Abs(x) == IF x < 0 THEN 0 - x ELSE x

\* the script got past the regular expression
Parsed == pc \in {"error", "result"}

\* nothing of a result is present
NoResult ==
    /\ raw_dev = None /\ is_symmetric = None /\ upper_dev = None /\ lower_dev = None
    /\ desc = None /\ max_size = None /\ min_size = None

\* the width IT of the shown result, in units
ItWidth == it_val_microns[1] * HalvesPerMicron

\* the upper end of the table range, and the ends of bracket i, in units
TableEnd == ranges[Len(ranges)] * MM
BracketLower(i) == IF i = 1 THEN 0 ELSE ranges[i - 1] * MM
BracketUpper(i) == ranges[i] * MM

\* the brackets (lower, upper] that contain a size
BracketsOf(size) == {i \in DOMAIN ranges : BracketLower(i) < size /\ size <= BracketUpper(i)}

InTable(size, grade) == 0 < size /\ size <= TableEnd /\ 5 <= grade /\ grade <= 13

\* C1: every result has upper deviation >= lower deviation, their difference is
\* the IT width of the size and grade, and the limits are the nominal size plus
\* the upper and the lower deviation.
Thm_C1 ==
    pc = "result" =>
        /\ upper_dev[1] >= lower_dev[1]
        /\ upper_dev[1] - lower_dev[1] = ItWidth
        /\ max_size[1] = nominal_size[1] + upper_dev[1]
        /\ min_size[1] = nominal_size[1] + lower_dev[1]

\* a shaft of the upper-anchored family with a deviation that is not zero
Wit_C1 ==
    /\ pc = "result"
    /\ dev_char = Some(<<"p">>)
    /\ lower_dev[1] > 0
    /\ upper_dev[1] > lower_dev[1]
    /\ max_size[1] > min_size[1]

\* C2 as claimed: a hole K, N or P has ES equal to the fundamental deviation and
\* EI = ES - IT; a shaft k, m, n or p has ei equal to the fundamental deviation
\* and es = ei + IT.
Claim_C2 ==
    pc = "result" =>
        /\ dev_char[1] \in {<<"K">>, <<"N">>, <<"P">>} =>
              /\ upper_dev[1] = ToMM(raw_dev[1].dev)
              /\ lower_dev[1] = upper_dev[1] - ItWidth
        /\ dev_char[1] \in {<<"k">>, <<"m">>, <<"n">>, <<"p">>} =>
              /\ lower_dev[1] = ToMM(raw_dev[1].dev)
              /\ upper_dev[1] = lower_dev[1] + ItWidth

\* C3: for a size in (0, 500] and a grade in 5..13 exactly one bracket contains
\* the size, and the width returned is that bracket's row of the table at column
\* grade - 5; a size equal to a bracket's upper boundary uses that bracket.
Thm_C3 ==
    (Parsed /\ InTable(nominal_size[1], tolerance_grade[1])) =>
        /\ pc = "result"
        /\ Cardinality(BracketsOf(nominal_size[1])) = 1
        /\ \A i \in BracketsOf(nominal_size[1]) :
              it_val_microns = Some(IT_TABLE[ranges[i]][tolerance_grade[1] - 5 + 1])
        /\ (nominal_size[1] = 50 * MM /\ tolerance_grade[1] = 7) => it_val_microns = Some(25)
        /\ (nominal_size[1] = 50 * MM /\ tolerance_grade[1] = 6) => it_val_microns = Some(16)

\* a size exactly on the boundary 30 is served from the row of (18, 30]
Wit_C3 ==
    /\ pc = "result"
    /\ nominal_size = Some(30 * MM)
    /\ tolerance_grade = Some(9)
    /\ it_val_microns = Some(52)

\* C4 as claimed: a size outside (0, 500] or a grade outside IT5..IT13 gives an
\* error and no deviations and no limits.
Claim_C4 ==
    (Parsed /\ ~InTable(nominal_size[1], tolerance_grade[1])) =>
        pc = "error" /\ NoResult

\* the letter codes the specification supports, in lower case
SupportedCodes ==
    {<<"h">>, <<"g">>, <<"f">>, <<"e">>, <<"k">>, <<"m">>, <<"n">>, <<"p">>, <<"j", "s">>}

\* C5 as claimed: a letter code outside the supported set gives an error and no
\* result, for every size and grade that are valid.
Claim_C5 ==
    (Parsed /\ InTable(nominal_size[1], tolerance_grade[1])
            /\ Lower(dev_char[1]) \notin SupportedCodes) =>
        pc = "error" /\ NoResult

\* C6: H gives lower deviation 0 and upper deviation IT; h gives upper
\* deviation 0 and lower deviation -IT.
Thm_C6 ==
    pc = "result" =>
        /\ dev_char[1] = <<"H">> => (lower_dev[1] = 0 /\ upper_dev[1] = ItWidth)
        /\ dev_char[1] = <<"h">> => (upper_dev[1] = 0 /\ lower_dev[1] = 0 - ItWidth)

\* a basis hole with a width that is not zero
Wit_C6 ==
    /\ pc = "result"
    /\ dev_char = Some(<<"H">>)
    /\ nominal_size = Some(50 * MM)
    /\ upper_dev = Some(ToMM(25))
    /\ lower_dev = Some(0)

\* C7: for js and JS the resolver returns the symbolic value, the upper
\* deviation is +IT/2 and the lower deviation is -IT/2.
Thm_C7 ==
    (pc = "result" /\ dev_char[1] \in {<<"j", "s">>, <<"J", "S">>}) =>
        /\ raw_dev = Some(SYMMETRIC)
        /\ is_symmetric = Some(TRUE)
        /\ 2 * upper_dev[1] = ItWidth
        /\ lower_dev[1] = 0 - upper_dev[1]

\* a symmetric band whose half is not a whole number of microns
Wit_C7 ==
    /\ pc = "result"
    /\ dev_char = Some(<<"J", "S">>)
    /\ it_val_microns[1] % 2 = 1
    /\ upper_dev[1] > 0

\* C8: shafts f and g have es equal to the fundamental deviation, which is
\* negative, and ei = es - IT; holes F and G have EI equal to the fundamental
\* deviation, which is positive and the negation of the shaft value of the same
\* size, and ES = EI + IT; the magnitude of the fundamental deviation is never
\* smaller than at a smaller size.
Thm_C8 ==
    pc = "result" =>
        /\ dev_char[1] \in {<<"f">>, <<"g">>} =>
              /\ raw_dev[1].dev < 0
              /\ upper_dev[1] = ToMM(raw_dev[1].dev)
              /\ lower_dev[1] = upper_dev[1] - ItWidth
        /\ dev_char[1] \in {<<"F">>, <<"G">>} =>
              /\ raw_dev[1].dev > 0
              /\ raw_dev[1].dev =
                    0 - get_fundamental_deviation(nominal_size[1], Lower(dev_char[1])).dev
              /\ lower_dev[1] = ToMM(raw_dev[1].dev)
              /\ upper_dev[1] = lower_dev[1] + ItWidth
        /\ dev_char[1] \in {<<"f">>, <<"g">>, <<"F">>, <<"G">>} =>
              \A n \in WholeSizes :
                  n * MM <= nominal_size[1] =>
                      Abs(get_fundamental_deviation(n * MM, dev_char[1]).dev)
                          <= Abs(raw_dev[1].dev)

\* a hole G above the last step of its table
Wit_C8 ==
    /\ pc = "result"
    /\ dev_char = Some(<<"G">>)
    /\ nominal_size[1] > 50 * MM
    /\ raw_dev = Some(Number(10))
    /\ lower_dev = Some(ToMM(10))

\* the whole of a string is a number
IsNumber(t) ==
    /\ t # <<>>
    /\ \A i \in DOMAIN t : IsDigit(t[i]) \/ t[i] = "."
    /\ Cardinality({i \in DOMAIN t : t[i] = "."}) <= 1
    /\ IsDigit(t[1]) /\ IsDigit(t[Len(t)])

\* the whole string is a number, a letter code of one or two letters and an
\* integer grade (blanks between the three are let through)
WholeShape(t) ==
    \E i, j, k, l \in 0..Len(t) :
        /\ i <= j /\ j < k /\ k <= l /\ l < Len(t)
        /\ IsNumber(SubSeq(t, 1, i))
        /\ \A x \in (i + 1)..j : IsSpace(t[x])
        /\ k - j <= 2
        /\ \A x \in (j + 1)..k : IsAlpha(t[x])
        /\ \A x \in (k + 1)..l : IsSpace(t[x])
        /\ \A x \in (l + 1)..Len(t) : IsDigit(t[x])

\* C9 as claimed: the parser accepts a string exactly when the whole string has
\* the shape number, one or two letters, integer grade; every other string
\* gives the format warning and no result.
Claim_C9 ==
    pc \in {"warning", "error", "result"} =>
        /\ Parsed <=> WholeShape(Strip(user_input))
        /\ pc = "warning" => NoResult

\* the fit class the signs of the two deviations give, 0 counting as non-negative
FitClass(upper, lower) ==
    IF upper >= 0 /\ lower >= 0 THEN "Clearance"
    ELSE IF upper < 0 /\ lower < 0 THEN "Interference"
    ELSE "Transition"

\* C10 as claimed: the class shown with a result is the fit class given by the
\* signs of the two deviations.
Claim_C10 ==
    pc = "result" => desc = Some(FitClass(upper_dev[1], lower_dev[1]))

====
